---- MODULE Spec2Model ----
(***************************************************************************)
(* Failure-analysis pipeline of automation_failure_solver.                 *)
(*                                                                         *)
(* Two variants of the LangGraph workflow live in the repository:          *)
(*   "poc"   - src/poc/langgraph_poc   (multi-report, Java re-execution)   *)
(*   "local" - src/local/langgraph_poc (single report, conditional edges)  *)
(* One run of run_failure_analysis is modelled as a state machine: the     *)
(* accumulating state dictionary `st`, the node about to run `pc`, and the *)
(* external collaborators (XML files, repository, build tool, LLM) as      *)
(* inputs.                                                                 *)
(*                                                                         *)
(* Optional values: None is the empty tuple, a present value x is <<x>>.   *)
(* Texts built with f-strings are tuples <<fixed part, variable part>>.    *)
(* confidence_level is an integer percentage (0.85 is 85).                 *)
(***************************************************************************)
EXTENDS Integers, Sequences, FiniteSets, TLC

\* ------------------------------------------------------------------ bounds
MaxFiles == 2
MaxTests == 1

\* ------------------------------------------------------------ option type
None == <<>>
Some(x) == <<x>>
IsNone(o) == Len(o) = 0
IsSome(o) == Len(o) = 1
Val(o) == o[1]

Variants == {"poc", "local"}

RECURSIVE SumSeq(_)
SumSeq(q) == IF Len(q) = 0 THEN 0 ELSE Head(q) + SumSeq(Tail(q))

RECURSIVE Flatten(_)
Flatten(qq) == IF Len(qq) = 0 THEN <<>> ELSE Head(qq) \o Flatten(Tail(qq))

\* ------------------------------------------------------------- XML inputs
\* A report file: what the parsers read from it.  kind is the outcome of
\* ET.parse and of the root-tag test; the counts are the aggregate
\* attributes; fails are the failing test elements in document order.
\* A failure record of a TestNG report carries the method signature, a
\* JUnit record has none.  JUnit has no 'passed' attribute (the parser
\* computes it); in a TestNG root it is an attribute of its own.
\* test_name is the position of the failing test in its file; class_name
\* is present in both formats (TestNG takes it from the signature).
FailureRecord(k, i) ==
    [test_name |-> i, class_name |-> "ClassName", error_type |-> "AssertionError",
     error_message |-> "expected true", method_signature |-> (k = "testng")]

\* Python's `needle in text` on the exception classes and messages the
\* reports of the model carry
Contains(needle, text) ==
    <<needle, text>> \in
        { <<"AssertionError",   "AssertionError">>,
          <<"Assert",           "AssertionError">>,
          <<"Assert",           "org.opentest4j.AssertionFailedError">>,
          <<"CompilationError", "CompilationError">>,
          <<"timeout",          "timeout waiting for element">> }

\* str.lower
Lower(text) ==
    IF text = "Timeout waiting for element" THEN "timeout waiting for element" ELSE text

\* the three `any(...)` tests over the failure records.  Only the TestNG
\* extractor and merge_reports accept a bare 'Assert' in the exception class.
has_compilation_error(fails) ==
    \E i \in 1..Len(fails) : Contains("CompilationError", fails[i].error_type)

has_timeout(fails) ==
    \E i \in 1..Len(fails) : Contains("timeout", Lower(fails[i].error_message))

has_assertion_error(fails, bare_assert) ==
    \E i \in 1..Len(fails) :
        \/ Contains("AssertionError", fails[i].error_type)
        \/ bare_assert /\ Contains("Assert", fails[i].error_type)

ValidReports ==
    { [kind |-> "junit", total |-> t, passed |-> t - f - e, failed |-> f,
       errors |-> e, skipped |-> 0,
       fails |-> [i \in 1..(f + e) |-> FailureRecord("junit", i)]] :
         t \in 0..MaxTests, f \in 0..MaxTests, e \in 0..MaxTests }
    \cup
    { [kind |-> "testng", total |-> t, passed |-> p, failed |-> f,
       errors |-> 0, skipped |-> 0,
       fails |-> [i \in 1..f |-> FailureRecord("testng", i)]] :
         t \in 0..MaxTests, f \in 0..MaxTests, p \in 0..MaxTests }

XmlFiles ==
    { r \in ValidReports : r.failed + r.errors <= r.total }
    \cup
    { [kind |-> k, total |-> 0, passed |-> 0, failed |-> 0, errors |-> 0,
       skipped |-> 0, fails |-> <<>>] : k \in {"malformed", "unknown_root"} }

RECURSIVE SeqsUpTo(_, _)
SeqsUpTo(S, n) ==
    IF n = 0 THEN { <<>> }
    ELSE LET shorter == SeqsUpTo(S, n - 1)
         IN  shorter \cup { Append(q, x) : q \in { p \in shorter : Len(p) = n - 1 }, x \in S }

\* ------------------------------------------------------------ repositories
\* repo_path as the stages see it: whether it names an existing directory
\* and which build files its root holds (pom.xml; build.gradle or
\* build.gradle.kts).
Repos ==
    { [exists |-> FALSE, pom |-> FALSE, gradle |-> "none"] }
    \cup { [exists |-> TRUE, pom |-> p, gradle |-> g] :
              p \in BOOLEAN, g \in {"none", "groovy", "kts"} }

\* detect_build_system that falls back to Maven when it finds no build file
detect_build_system_DefaultsToMaven(repo) ==
    IF repo.pom THEN "maven"
    ELSE IF repo.gradle \in {"groovy", "kts"} THEN "gradle"
    ELSE "maven"

\* JavaTestFinder.detect_build_system: pom.xml wins over the Gradle files
detect_build_system(repo) ==
    IF repo.pom THEN "maven"
    ELSE IF repo.gradle \in {"groovy", "kts"} THEN "gradle"
    ELSE "none"

\* ------------------------------------------------------------ XML readers
\* XMLReportReader.__init__ / _detect_format (poc): raises on a parse error
\* and on a root that is neither TestNG nor JUnit.
ReaderRaises(v, f) ==
    IF v = "poc" THEN f.kind \in {"malformed", "unknown_root"}
                 ELSE f.kind = "malformed"

ReaderError(v, f) ==
    IF v = "poc"
    THEN IF f.kind = "malformed" THEN "Invalid XML file" ELSE "Unknown XML format"
    ELSE "Failed to parse XML"

\* ResultOf without the partial case
ResultOf_NeverPartial(failure_count, total) ==
    IF failure_count = 0 THEN "SUCCESS" ELSE "FAILURE"

\* result of a summary: SUCCESS / FAILURE / PARTIAL_FAILURE from the number
\* of failure records and the total.
ResultOf(failure_count, total) ==
    IF failure_count = 0 THEN "SUCCESS"
    ELSE IF failure_count = total THEN "FAILURE"
    ELSE "PARTIAL_FAILURE"

\* XMLReportReader.parse_report
parse_report(v, f) ==
    IF v = "poc"
    THEN [ total_tests   |-> f.total,
           passed_tests  |-> IF f.kind = "testng" THEN f.passed
                             ELSE f.total - f.failed - f.errors - f.skipped,
           failed_tests  |-> f.failed,
           error_tests   |-> IF f.kind = "testng" THEN 0 ELSE f.errors,
           skipped_tests |-> f.skipped,
           format        |-> f.kind ]
    ELSE \* the local reader only counts <testcase> elements under <testsuite>
         LET j == f.kind = "junit" IN
         [ total_tests   |-> IF j THEN f.total ELSE 0,
           failed_tests  |-> IF j THEN f.failed ELSE 0,
           error_tests   |-> IF j THEN f.errors ELSE 0,
           skipped_tests |-> IF j THEN f.skipped ELSE 0,
           passed_tests  |-> IF j THEN f.total - f.failed - f.errors - f.skipped ELSE 0 ]

\* XMLReportReader.extract_failure_details
extract_failure_details(v, f) ==
    IF v = "poc"
    THEN [ failure_count |-> Len(f.fails),
           result        |-> ResultOf(Len(f.fails), f.total),
           test_failures |-> f.fails,
           has_compilation_error |-> has_compilation_error(f.fails),
           has_timeout           |-> has_timeout(f.fails),
           has_assertion_error   |-> has_assertion_error(f.fails, f.kind = "testng"),
           format        |-> f.kind ]
    ELSE LET all_failures == IF f.kind = "junit" THEN f.fails ELSE <<>> IN
         [ result        |-> IF Len(all_failures) > 0 THEN "FAILURE" ELSE "SUCCESS",
           test_failures |-> all_failures,
           failure_count |-> Len(all_failures),
           total_tests   |-> parse_report(v, f).total_tests,
           passed_tests  |-> parse_report(v, f).passed_tests ]

\* merge_reports that forgets to add up the errored tests
merge_reports_DropsErrors(paths) ==
    LET good  == SelectSeq(paths, LAMBDA f : ~ReaderRaises("poc", f))
        sum(field) == SumSeq([i \in 1..Len(good) |-> parse_report("poc", good[i])[field]])
        fails == Flatten([i \in 1..Len(good) |-> good[i].fails])
    IN  [ total_tests   |-> sum("total_tests"),
          passed_tests  |-> sum("passed_tests"),
          failed_tests  |-> sum("failed_tests"),
          error_tests   |-> 0,
          skipped_tests |-> sum("skipped_tests"),
          test_failures |-> fails,
          failure_count |-> Len(fails),
          formats       |-> { good[i].kind : i \in 1..Len(good) },
          has_compilation_error |-> has_compilation_error(fails),
          has_timeout           |-> has_timeout(fails),
          has_assertion_error   |-> has_assertion_error(fails, TRUE),
          result        |-> ResultOf(Len(fails), sum("total_tests")) ]

\* XMLReportReader.merge_reports (poc): a file whose reader raises is
\* skipped with a warning, the others are summed.
merge_reports(paths) ==
    LET good  == SelectSeq(paths, LAMBDA f : ~ReaderRaises("poc", f))
        sum(field) == SumSeq([i \in 1..Len(good) |-> parse_report("poc", good[i])[field]])
        fails == Flatten([i \in 1..Len(good) |-> good[i].fails])
    IN  [ total_tests   |-> sum("total_tests"),
          passed_tests  |-> sum("passed_tests"),
          failed_tests  |-> sum("failed_tests"),
          error_tests   |-> sum("error_tests"),
          skipped_tests |-> sum("skipped_tests"),
          test_failures |-> fails,
          failure_count |-> Len(fails),
          formats       |-> { good[i].kind : i \in 1..Len(good) },
          has_compilation_error |-> has_compilation_error(fails),
          has_timeout           |-> has_timeout(fails),
          has_assertion_error   |-> has_assertion_error(fails, TRUE),
          result        |-> ResultOf(Len(fails), sum("total_tests")) ]

\* ------------------------------------------------------- pipeline state
\* run_failure_analysis: the initial state dictionary.
InitialState(v, paths, repo) ==
    [ xml_report_paths  |-> paths,
      repo_path         |-> repo,
      test_name         |-> None,
      test_results      |-> None,
      failure_details   |-> None,
      code_files        |-> None,
      local_output      |-> None,
      local_errors      |-> None,
      local_exit_code   |-> None,
      execution_success |-> None,
      collected_data    |-> None,
      root_cause        |-> None,
      confidence_level  |-> None,
      recommendations   |-> None,
      final_report      |-> None,
      workflow_status   |-> IF v = "poc" THEN "initialized" ELSE "started",
      error_message     |-> None ]

\* ------------------------------------------------------------------ Ingest
\* xml_report_fetcher
xml_report_fetcher(v, s) ==
    LET paths == s.xml_report_paths
        fail(msg) == [s EXCEPT !.workflow_status = "error",
                               !.error_message = Some(msg)]
    IN
    IF v = "poc" /\ Len(paths) = 0
    THEN fail(<<"No XML paths provided", "">>)
    ELSE IF v = "local" \/ Len(paths) = 1
    THEN IF ReaderRaises(v, paths[1])
         THEN fail(<<"XML parsing failed", ReaderError(v, paths[1])>>)
         ELSE [s EXCEPT !.test_results    = Some(parse_report(v, paths[1])),
                        !.failure_details = Some(extract_failure_details(v, paths[1])),
                        !.workflow_status = "xml_fetched"]
    ELSE [s EXCEPT !.test_results    = Some(merge_reports(paths)),
                   !.failure_details = Some(merge_reports(paths)),
                   !.workflow_status = "xml_fetched"]

\* ------------------------------------------------------------------ Locate
\* local_repo_access: LocalRepoClient raises when repo_path is not an
\* existing directory.  The poc state schema has no code_files channel, so
\* the graph drops that key of the update there.
local_repo_access(v, s) ==
    IF ~s.repo_path.exists
    THEN [s EXCEPT !.workflow_status = "error",
                   !.error_message = Some(<<"Local repo access failed", "Repository path not found">>)]
    ELSE [s EXCEPT !.code_files = IF v = "local" THEN Some("listed") ELSE @,
                   !.workflow_status = "repo_accessed"]

\* ----------------------------------------------------------------- Execute
\* What the environment does to the Execute stage.
\*   poc:   not_located      the failing classes have no file in the repository
\*          sources_present  the files are there, but no failure record can
\*                           be searched for (find_tests_for_failures returns [])
\*          exit0            build tool exits 0, empty stderr
\*          exit0_stderr     build tool exits 0 and wrote to stderr
\*          nonzero          build tool exits 1
\*          timeout          subprocess.TimeoutExpired
\*          tool_not_found   FileNotFoundError for mvn / gradle
\*          run_exception    any other exception of subprocess.run
\*          node_exception   an exception in local_executor itself
\*   local: ok, dep_failed (pip/npm install exits non-zero, tests exit 0),
\*          nonzero, timeout, exception
PocExecOutcomes ==
    {"not_located", "exit0", "exit0_stderr", "nonzero", "timeout",
     "tool_not_found", "run_exception", "node_exception"}
LocalExecOutcomes == {"ok", "dep_failed", "nonzero", "timeout", "exception"}

\* find_tests_for_failures that searches by class name whether or not the
\* search by signature found the test, and appends both finds
find_tests_for_failures_BothSearches(failure_details, o) ==
    LET file_exists == o # "not_located"
        located(f) == [failure_info |-> f, class_name |-> f.class_name, method_name |-> f.test_name]
        find(f) == IF f.method_signature /\ file_exists THEN <<located(f), located(f)>> ELSE <<>>
    IN  Flatten([i \in 1..Len(failure_details.test_failures) |-> find(failure_details.test_failures[i])])

\* JavaTestFinder.find_tests_for_failures: the located tests.  Only a
\* failure record with a method signature is searched for: by signature
\* first and, if that finds nothing, by the simple class name.  Both
\* searches look for <ClassName>.java under the search directory; whether
\* the file is there is the environment's choice (o = "not_located": it is
\* not).
find_tests_for_failures(failure_details, o) ==
    LET file_exists == o # "not_located"
        located(f) == [failure_info |-> f, class_name |-> f.class_name, method_name |-> f.test_name]
        find(f) == IF f.method_signature /\ file_exists THEN <<located(f)>> ELSE <<>>
    IN  Flatten([i \in 1..Len(failure_details.test_failures) |-> find(failure_details.test_failures[i])])

\* run_build_tool with a single except branch for every exception
run_build_tool_OneExceptBranch(build, o) ==
    CASE o = "exit0"          -> [success |-> TRUE,  output |-> "stdout", errors |-> <<>>, exit_code |-> 0]
      [] o = "exit0_stderr"   -> [success |-> TRUE,  output |-> "stdout", errors |-> <<"stderr">>, exit_code |-> 0]
      [] o = "nonzero"        -> [success |-> FALSE, output |-> "stdout", errors |-> <<"stderr">>, exit_code |-> 1]
      [] OTHER                -> [success |-> FALSE, output |-> "", errors |-> <<"Test execution failed">>, exit_code |-> -1]

\* _run_maven_tests / _run_gradle_tests: one subprocess.run, whose outcome
\* o is the environment's
run_build_tool(build, o) ==
    CASE o = "exit0"          -> [success |-> TRUE,  output |-> "stdout", errors |-> <<>>, exit_code |-> 0]
      [] o = "exit0_stderr"   -> [success |-> TRUE,  output |-> "stdout", errors |-> <<"stderr">>, exit_code |-> 0]
      [] o = "nonzero"        -> [success |-> FALSE, output |-> "stdout", errors |-> <<"stderr">>, exit_code |-> 1]
      [] o = "timeout"        -> [success |-> FALSE, output |-> "", errors |-> <<"Test execution timed out">>, exit_code |-> -1]
      [] o = "tool_not_found" -> [success |-> FALSE, output |-> "",
                                  errors |-> <<IF build = "maven" THEN "Maven (mvn) command not found"
                                               ELSE "Gradle command not found">>,
                                  exit_code |-> -1]
      [] OTHER                -> [success |-> FALSE, output |-> "", errors |-> <<"Test execution failed">>, exit_code |-> -1]

\* run_specific_tests without the test for an empty list
run_specific_tests_NoEmptyTest(build, found, o) ==
    IF build \in {"maven", "gradle"}
    THEN run_build_tool(build, o)
    ELSE [success |-> FALSE, output |-> "", errors |-> <<"Unsupported build system">>, exit_code |-> -1]

\* JavaTestExecutor.run_specific_tests on `found` located tests
run_specific_tests(build, found, o) ==
    IF found = 0
    THEN [success |-> FALSE, output |-> "", errors |-> <<"No tests to run">>, exit_code |-> -1]
    ELSE IF build \in {"maven", "gradle"}
    THEN run_build_tool(build, o)
    ELSE [success |-> FALSE, output |-> "", errors |-> <<"Unsupported build system">>, exit_code |-> -1]

\* build_tool_starts of an executor that runs the build tool again after a
\* failed attempt
build_tool_starts_RetryOnFailure(build, found, o) ==
    IF found > 0 /\ build \in {"maven", "gradle"}
    THEN IF o \in {"exit0", "exit0_stderr"} THEN 1 ELSE 2
    ELSE 0

\* the number of subprocess.run calls run_specific_tests makes
build_tool_starts(build, found, o) ==
    IF found > 0 /\ build \in {"maven", "gradle"} THEN 1 ELSE 0

\* the update every return of the poc local_executor makes
PocExecuted(s, output, errors, code, ok) ==
    [s EXCEPT !.local_output      = Some(output),
              !.local_errors      = Some(errors),
              !.local_exit_code   = Some(code),
              !.execution_success = Some(ok),
              !.workflow_status   = "executed"]

\* local_executor (poc)
poc_local_executor(s, o) ==
    LET failure_count == IF IsSome(s.failure_details) THEN Val(s.failure_details).failure_count ELSE 0
    IN
    IF failure_count = 0
    THEN PocExecuted(s, "No failures to reproduce", <<>>, 0, TRUE)
    ELSE IF ~s.repo_path.exists \/ o = "node_exception"
    THEN PocExecuted(s, "", <<"exception text">>, -1, FALSE)
    ELSE IF detect_build_system(s.repo_path) = "none"
    THEN PocExecuted(s, "Build system not detected (Maven/Gradle required)",
                     <<"No pom.xml or build.gradle found">>, -1, FALSE)
    ELSE IF Len(find_tests_for_failures(Val(s.failure_details), o)) = 0
    THEN PocExecuted(s, "Failed tests not found in repository",
                     <<"Test files could not be located">>, -1, FALSE)
    ELSE LET result == run_specific_tests(detect_build_system(s.repo_path),
                                          Len(find_tests_for_failures(Val(s.failure_details), o)), o)
         IN  PocExecuted(s, result.output, result.errors, result.exit_code, result.success)

\* the subprocess.run calls of one call of the poc local_executor
poc_build_tool_starts(s, o) ==
    LET failure_count == IF IsSome(s.failure_details) THEN Val(s.failure_details).failure_count ELSE 0
    IN
    IF failure_count = 0 \/ ~s.repo_path.exists \/ o = "node_exception"
       \/ detect_build_system(s.repo_path) = "none"
       \/ Len(find_tests_for_failures(Val(s.failure_details), o)) = 0
    THEN 0
    ELSE build_tool_starts(detect_build_system(s.repo_path),
                           Len(find_tests_for_failures(Val(s.failure_details), o)), o)

\* local_executor (local)
local_local_executor(s, o) ==
    CASE o = "timeout" ->
           [s EXCEPT !.local_output      = Some("Execution timed out"),
                     !.local_exit_code   = Some(-1),
                     !.local_errors      = Some(<<"Execution timeout">>),
                     !.execution_success = Some(FALSE),
                     !.workflow_status   = "error",
                     !.error_message     = Some(<<"Local execution timed out", "">>)]
      [] o = "exception" ->
           [s EXCEPT !.local_output      = Some("exception text"),
                     !.local_exit_code   = Some(-1),
                     !.local_errors      = Some(<<"exception text">>),
                     !.execution_success = Some(FALSE),
                     !.workflow_status   = "error",
                     !.error_message     = Some(<<"Local execution failed", "exception text">>)]
      [] OTHER ->
           LET exit_code == IF o = "nonzero" THEN 1 ELSE 0
               errors == CASE o = "nonzero"    -> <<"Tests failed with exit code", "stderr">>
                           [] o = "dep_failed" -> <<"Dependency installation failed">>
                           [] OTHER            -> <<>>
           IN  [s EXCEPT !.local_output      = Some("logs"),
                         !.local_exit_code   = Some(exit_code),
                         !.local_errors      = Some(errors),
                         !.execution_success = Some(exit_code = 0 /\ Len(errors) = 0),
                         !.workflow_status   = "executed_locally"]

\* the runs of the test command in one call of the local local_executor:
\* subprocess.run(test_command.split()) is called once, whatever it does
local_test_command_starts(s, o) == 1

local_executor(v, s, o) ==
    IF v = "poc" THEN poc_local_executor(s, o) ELSE local_local_executor(s, o)

test_process_starts(v, s, o) ==
    IF v = "poc" THEN poc_build_tool_starts(s, o) ELSE local_test_command_starts(s, o)

\* ----------------------------------------------------------------- Collect
\* state.get(key, default) returns None for a key that is present with the
\* value None, so `not state.get('execution_success', False)` is true then.
Truthy(o) == IsSome(o) /\ Val(o)

\* results_collector (poc): the comparison block
poc_comparison(failed_tests, error_tests, success) ==
    LET xml_failed   == failed_tests > 0 \/ error_tests > 0
        local_failed == ~success
        consistent_failure == (xml_failed = local_failed)
    IN  [ xml_failed         |-> xml_failed,
          local_failed       |-> local_failed,
          consistent_failure |-> consistent_failure,
          reproducible       |-> consistent_failure /\ xml_failed ]

\* results_collector (local): the comparison block
local_comparison(result, success) ==
    [ xml_failed         |-> result # "SUCCESS",
      local_failed       |-> ~success,
      consistent_failure |-> (result # "SUCCESS" /\ ~success) ]

\* results_collector (poc).  test_results.get raises AttributeError when
\* test_results is None; the except branch turns that into status 'error'.
poc_results_collector(s) ==
    IF IsNone(s.test_results) \/ IsNone(s.failure_details)
    THEN [s EXCEPT !.workflow_status = "error",
                   !.error_message = Some(<<"Results collection failed", "NoneType has no attribute get">>)]
    ELSE LET tr == Val(s.test_results)
             test_report == [ total_tests  |-> tr.total_tests,
                              failed_tests |-> tr.failed_tests,
                              error_tests  |-> tr.error_tests,
                              result       |-> Val(s.failure_details).result ]
             local_execution == [ exit_code   |-> s.local_exit_code,
                                  success     |-> s.execution_success,
                                  error_count |-> IF IsSome(s.local_errors) THEN Len(Val(s.local_errors)) ELSE 0 ]
         IN [s EXCEPT !.collected_data =
                           Some([ test_report     |-> test_report,
                                  local_execution |-> local_execution,
                                  comparison      |-> poc_comparison(tr.failed_tests, tr.error_tests,
                                                                     Truthy(s.execution_success)) ]),
                      !.workflow_status = "results_collected"]

\* results_collector (local) has no try block: it raises out of the node
\* when test_results, code_files, local_errors or the logs are None.
local_collector_raises(s) ==
    \/ IsNone(s.test_results)
    \/ IsNone(s.failure_details)
    \/ IsNone(s.code_files)
    \/ IsNone(s.local_errors)
    \/ IsNone(s.local_output)

local_results_collector(s) ==
    LET result == Val(s.failure_details).result
    IN  [s EXCEPT !.collected_data =
                      Some([ test_report     |-> [ result      |-> result,
                                                   total_tests |-> Val(s.test_results).total_tests ],
                             local_execution |-> [ exit_code   |-> s.local_exit_code,
                                                   success     |-> s.execution_success,
                                                   error_count |-> Len(Val(s.local_errors)) ],
                             comparison      |-> local_comparison(result, Truthy(s.execution_success)) ]),
                  !.workflow_status = "results_collected"]

\* results_collector that hands on only what it collected and drops the
\* parsed failure records from the state
results_collector_DropsFailureDetails(v, s) ==
    [ (IF v = "poc" THEN poc_results_collector(s) ELSE local_results_collector(s))
        EXCEPT !.failure_details = None ]

results_collector(v, s) ==
    IF v = "poc" THEN poc_results_collector(s) ELSE local_results_collector(s)

\* ----------------------------------------------------------------- Analyze
\* The text-generation collaborator either raises (transport, credentials)
\* or returns a response text.  A response is described by what the parsers
\* look for in it: the root-cause marker, the confidence line and the number
\* of recommendation lines.  conf.k is "absent" (no confidence marker),
\* "garbled" (a marker without a number), "pct" (n followed by %) or
\* "num" (a bare number, n in hundredths: 0.85 is 85, 85 is 8500).
LLMErrors == {"ExpiredToken", "ConnectTimeout"}
ConfTexts ==
    { [k |-> "absent", n |-> 0], [k |-> "garbled", n |-> 0],
      [k |-> "pct", n |-> 85], [k |-> "num", n |-> 85], [k |-> "num", n |-> 8500] }
Responses == [ rc : BOOLEAN, conf : ConfTexts, nrecs : 0..1 ]
LLMOutcomes ==
    { [raises |-> Some(e), resp |-> [rc |-> FALSE, conf |-> [k |-> "absent", n |-> 0], nrecs |-> 0]] :
        e \in LLMErrors }
    \cup { [raises |-> None, resp |-> r] : r \in Responses }

SentinelRecs == <<"See detailed analysis for recommendations">>
ManualRecs(v) ==
    IF v = "poc"
    THEN <<"Manual investigation required", "Check AWS credentials", "Review error logs">>
    ELSE <<"Manual investigation required">>

\* analyzer_fallback with the confidence reset forgotten
analyzer_fallback_KeepsConfidence(v, s, e) ==
    [s EXCEPT !.root_cause       = Some(<<"Analysis failed", e>>),
              !.recommendations  = Some(ManualRecs(v)),
              !.workflow_status  = "error",
              !.error_message    = Some(<<"Analysis failed", e>>)]

\* the except branch of root_cause_analyzer: the fallback analysis
analyzer_fallback(v, s, e) ==
    [s EXCEPT !.root_cause       = Some(<<"Analysis failed", e>>),
              !.confidence_level = Some(0),
              !.recommendations  = Some(ManualRecs(v)),
              !.workflow_status  = "error",
              !.error_message    = Some(<<"Analysis failed", e>>)]

\* root_cause_analyzer (poc).  The confidence pattern r'(\d+(? :\.\d+)?)\s*%'
\* does not compile: re.search raises re.error whenever the response has
\* the confidence marker, and the except branch takes over.
poc_root_cause_analyzer(s, llm) ==
    IF IsSome(llm.raises)
    THEN analyzer_fallback("poc", s, Val(llm.raises))
    ELSE IF llm.resp.conf.k # "absent"
    THEN analyzer_fallback("poc", s, "re.error")
    ELSE [s EXCEPT !.root_cause       = Some(IF llm.resp.rc THEN <<"root cause section", "">>
                                             ELSE <<"Unable to determine root cause", "">>),
                   !.confidence_level = Some(0),
                   !.recommendations  = Some(IF llm.resp.nrecs > 0
                                             THEN [i \in 1..llm.resp.nrecs |-> "recommendation"]
                                             ELSE SentinelRecs),
                   !.workflow_status  = "analyzed"]

\* root_cause_analyzer (local): collected_data['test_report'] raises inside
\* the try block when collected_data is None.
local_root_cause_analyzer(s, llm) ==
    IF IsNone(s.collected_data) \/ IsNone(s.failure_details) \/ IsNone(s.local_errors)
    THEN analyzer_fallback("local", s, "TypeError")
    ELSE IF IsSome(llm.raises)
    THEN analyzer_fallback("local", s, Val(llm.raises))
    ELSE [s EXCEPT !.root_cause       = Some(<<"analysis text", "">>),
                   !.confidence_level = Some(CASE llm.resp.conf.k = "pct" -> llm.resp.conf.n
                                               [] llm.resp.conf.k = "num" -> llm.resp.conf.n
                                               [] OTHER -> 70),
                   !.recommendations  = Some(IF llm.resp.nrecs > 0
                                             THEN [i \in 1..llm.resp.nrecs |-> "recommendation"]
                                             ELSE SentinelRecs),
                   !.workflow_status  = "analyzed"]

root_cause_analyzer(v, s, llm) ==
    IF v = "poc" THEN poc_root_cause_analyzer(s, llm) ELSE local_root_cause_analyzer(s, llm)

\* ------------------------------------------------------------------ Render
\* An exception inside the try block of report_generator that does not come
\* from the state (formatting, logging, memory): the except branch handles it.
RenderFaults == { None, Some("exception text") }

\* report_generator (poc): every read has a default, nothing in the state
\* makes the try block raise.
poc_report_raises(s) == FALSE

\* the document the poc try block builds
poc_full_report(s) ==
    LET tr == IF IsSome(s.test_results) THEN Val(s.test_results)
              ELSE [total_tests |-> 0, failed_tests |-> 0, error_tests |-> 0]
        cd == s.collected_data
        le == IF IsSome(cd) THEN Val(cd).local_execution
              ELSE [exit_code |-> None, success |-> None, error_count |-> 0]
        cmp == IF IsSome(cd) THEN Val(cd).comparison
               ELSE [xml_failed |-> FALSE, local_failed |-> FALSE,
                     consistent_failure |-> FALSE, reproducible |-> FALSE]
    IN  [ doc             |-> "full",
          total_tests     |-> tr.total_tests,
          failed_tests    |-> tr.failed_tests,
          error_tests     |-> tr.error_tests,
          result          |-> IF IsSome(cd) THEN Val(cd).test_report.result ELSE "UNKNOWN",
          exit_code       |-> le.exit_code,
          success         |-> Truthy(le.success),
          error_count     |-> le.error_count,
          \* the section prints the exit code, the success flag, the output
          \* length and the error count: no text of the Execute stage
          execution_texts |-> <<>>,
          comparison      |-> cmp,
          confidence      |-> IF IsSome(s.confidence_level) THEN Val(s.confidence_level) ELSE 0,
          root_cause      |-> IF IsSome(s.root_cause) THEN Val(s.root_cause)
                              ELSE <<"Unable to determine root cause", "">>,
          recommendations |-> IF IsSome(s.recommendations) /\ Len(Val(s.recommendations)) > 0
                              THEN Val(s.recommendations)
                              ELSE <<"No recommendations available">> ]

poc_report_generator(s, fault) ==
    IF poc_report_raises(s) \/ IsSome(fault)
    THEN [s EXCEPT !.final_report = Some([ doc     |-> "error",
                                           stage   |-> "Report generation failed",
                                           message |-> IF IsSome(fault) THEN Val(fault) ELSE "TypeError",
                                           workflow_status |-> s.workflow_status ]),
                   !.workflow_status = "error",
                   !.error_message = Some(<<"Report generation failed",
                                            IF IsSome(fault) THEN Val(fault) ELSE "TypeError">>)]
    ELSE [s EXCEPT !.final_report = Some(poc_full_report(s)),
                   !.workflow_status = "completed"]

\* report_generator (local): subscripting collected_data, len(local_errors)
\* and the '.1%' format of confidence_level raise on None.
local_report_raises(s) ==
    \/ IsNone(s.collected_data)
    \/ IsNone(s.local_errors)
    \/ IsNone(s.confidence_level)

local_full_report(s) ==
    LET cd == Val(s.collected_data)
    IN  [ doc             |-> "full",
          result          |-> cd.test_report.result,
          total_tests     |-> cd.test_report.total_tests,
          exit_code       |-> s.local_exit_code,
          success         |-> Truthy(s.execution_success),
          error_count     |-> Len(Val(s.local_errors)),
          \* format_local_errors prints the first five entries of local_errors
          execution_texts |-> SubSeq(Val(s.local_errors), 1, IF Len(Val(s.local_errors)) < 5
                                                              THEN Len(Val(s.local_errors)) ELSE 5),
          comparison      |-> cd.comparison,
          confidence      |-> Val(s.confidence_level),
          root_cause      |-> s.root_cause,
          recommendations |-> s.recommendations ]

\* local_report_generator whose except branch returns no document, as the
\* except branches of the other local nodes do
local_report_generator_NoDocument(s, fault) ==
    IF local_report_raises(s) \/ IsSome(fault)
    THEN [s EXCEPT !.workflow_status = "error",
                   !.error_message = Some(<<"Report generation failed",
                                            IF IsSome(fault) THEN Val(fault) ELSE "TypeError">>)]
    ELSE [s EXCEPT !.final_report = Some(local_full_report(s)),
                   !.workflow_status = "completed"]

local_report_generator(s, fault) ==
    IF local_report_raises(s) \/ IsSome(fault)
    THEN [s EXCEPT !.final_report = Some([ doc     |-> "error",
                                           stage   |-> "Report generation failed",
                                           message |-> IF IsSome(fault) THEN Val(fault) ELSE "TypeError" ]),
                   !.workflow_status = "error",
                   !.error_message = Some(<<"Report generation failed",
                                            IF IsSome(fault) THEN Val(fault) ELSE "TypeError">>)]
    ELSE [s EXCEPT !.final_report = Some(local_full_report(s)),
                   !.workflow_status = "completed"]

report_generator(v, s, fault) ==
    IF v = "poc" THEN poc_report_generator(s, fault) ELSE local_report_generator(s, fault)

\* the except branch of report_generator reads the state only through
\* state.get and str(e): nothing in the state makes it raise
report_handler_raises(v, s) == FALSE

\* ------------------------------------------------------------------- graph
Stages == <<"Ingest", "Locate", "Execute", "Collect", "Analyze", "Render">>

\* NextNode with the 'error' route of Execute ending the run, like the
\* routes of Ingest and Locate
NextNode_ExecErrorEnds(v, stage, s) ==
    CASE stage = "Ingest"  -> IF v = "local" /\ s.workflow_status = "error" THEN "END" ELSE "Locate"
      [] stage = "Locate"  -> IF v = "local" /\ s.workflow_status = "error" THEN "END" ELSE "Execute"
      [] stage = "Execute" -> IF v = "local" /\ s.workflow_status = "error" THEN "END" ELSE "Collect"
      [] stage = "Collect" -> "Analyze"
      [] stage = "Analyze" -> "Render"
      [] stage = "Render"  -> "END"

\* NextNode with the edge from the analyzer wired to END
NextNode_NoRenderEdge(v, stage, s) ==
    CASE stage = "Ingest"  -> IF v = "local" /\ s.workflow_status = "error" THEN "END" ELSE "Locate"
      [] stage = "Locate"  -> IF v = "local" /\ s.workflow_status = "error" THEN "END" ELSE "Execute"
      [] stage = "Execute" -> "Collect"
      [] stage = "Collect" -> "Analyze"
      [] stage = "Analyze" -> "END"
      [] stage = "Render"  -> "END"

\* NextNode with the edge out of the repository node wired past Execute
NextNode_SkipsExecute(v, stage, s) ==
    CASE stage = "Ingest"  -> IF v = "local" /\ s.workflow_status = "error" THEN "END" ELSE "Locate"
      [] stage = "Locate"  -> IF v = "local" /\ s.workflow_status = "error" THEN "END" ELSE "Collect"
      [] stage = "Execute" -> "Collect"
      [] stage = "Collect" -> "Analyze"
      [] stage = "Analyze" -> "Render"
      [] stage = "Render"  -> "END"

\* create_failure_analysis_graph: the node that follows `stage` when it
\* returned state s.  The poc graph has plain edges; the local graph ends
\* the run after an 'error' of Ingest or Locate and sends both outcomes of
\* Execute to Collect.
NextNode(v, stage, s) ==
    CASE stage = "Ingest"  -> IF v = "local" /\ s.workflow_status = "error" THEN "END" ELSE "Locate"
      [] stage = "Locate"  -> IF v = "local" /\ s.workflow_status = "error" THEN "END" ELSE "Execute"
      [] stage = "Execute" -> "Collect"
      [] stage = "Collect" -> "Analyze"
      [] stage = "Analyze" -> "Render"
      [] stage = "Render"  -> "END"

\* main(): the process exit code for a run that returned final state s.
\* poc tests workflow_status, local tests whether a report was produced.
main_exit_code(v, s) ==
    IF v = "poc"
    THEN IF s.workflow_status = "error" THEN 1 ELSE 0
    ELSE IF IsSome(s.final_report) THEN 0 ELSE 1

\* ------------------------------------------------------------------- state
VARIABLES
    variant,    \* which of the two packages runs
    pc,         \* node about to run, "END" after graph.invoke, "exited" after main
    st,         \* the state dictionary threaded through the nodes
    trace,      \* the nodes that have run, in order
    ev,         \* what the collaborators did in this run
    exit_code,  \* sys.exit status of main, None while running
    cwd,        \* the working directory of the process (os.getcwd / os.chdir)
    runs        \* the Execute stages of runs that share the process, <<>> for one run

vars == <<variant, pc, st, trace, ev, exit_code, cwd, runs>>

\* the directory the process was started in
StartDir == "start_dir"

NoEvents ==
    [ ingest_failed |-> FALSE, locate_failed |-> FALSE, exec |-> "",
      starts |-> 0, llm |-> None, resp |-> None, fault |-> None ]

Init ==
    /\ variant \in Variants
    /\ \E paths \in SeqsUpTo(XmlFiles, MaxFiles), repo \in Repos :
          /\ (variant = "local" => Len(paths) = 1)
          /\ st = InitialState(variant, paths, repo)
    /\ pc = "Ingest"
    /\ trace = <<>>
    /\ ev = NoEvents
    /\ exit_code = None
    /\ cwd = StartDir
    /\ runs = <<>>

\* the node `stage` ran and returned s2
Advance(stage, s2) ==
    /\ st' = s2
    /\ pc' = NextNode(variant, stage, s2)
    /\ trace' = Append(trace, stage)
    /\ UNCHANGED <<variant, exit_code, cwd, runs>>

Ingest ==
    /\ pc = "Ingest"
    /\ LET s2 == xml_report_fetcher(variant, st)
       IN  /\ Advance("Ingest", s2)
           /\ ev' = [ev EXCEPT !.ingest_failed = (s2.workflow_status = "error")]

Locate ==
    /\ pc = "Locate"
    /\ LET s2 == local_repo_access(variant, st)
       IN  /\ Advance("Locate", s2)
           /\ ev' = [ev EXCEPT !.locate_failed = (s2.workflow_status = "error")]

\* the outcomes the environment can produce for Execute in state s: the
\* build tool only runs when there are failures, a repository and a build file
ExecChoices(v, s) ==
    IF v = "local" THEN LocalExecOutcomes
    ELSE IF IsNone(s.failure_details) \/ Val(s.failure_details).failure_count = 0
    THEN {"no_failures"}
    ELSE IF ~s.repo_path.exists THEN {"node_exception"}
    ELSE IF detect_build_system(s.repo_path) = "none" THEN {"no_build_system"}
    ELSE IF Len(find_tests_for_failures(Val(s.failure_details), "exit0")) = 0
    THEN {"not_located", "sources_present"}
    ELSE PocExecOutcomes

Execute ==
    /\ pc = "Execute"
    /\ \E o \in ExecChoices(variant, st) :
          /\ Advance("Execute", local_executor(variant, st, o))
          /\ ev' = [ev EXCEPT !.exec = o,
                               !.starts = @ + test_process_starts(variant, st, o)]

Collect ==
    /\ pc = "Collect"
    /\ IF variant = "local" /\ local_collector_raises(st)
       THEN /\ pc' = "crashed"
            /\ trace' = Append(trace, "Collect")
            /\ UNCHANGED <<variant, st, ev, exit_code, cwd, runs>>
       ELSE /\ Advance("Collect", results_collector(variant, st))
            /\ UNCHANGED ev

Analyze ==
    /\ pc = "Analyze"
    /\ \E llm \in LLMOutcomes :
          /\ Advance("Analyze", root_cause_analyzer(variant, st, llm))
          /\ ev' = [ev EXCEPT !.llm = llm.raises,
                               !.resp = IF IsSome(llm.raises) THEN None ELSE Some(llm.resp)]

Render ==
    /\ pc = "Render"
    /\ \E fault \in RenderFaults :
          /\ IF report_handler_raises(variant, st)
             THEN /\ pc' = "crashed"
                  /\ trace' = Append(trace, "Render")
                  /\ UNCHANGED <<variant, st, exit_code, cwd, runs>>
             ELSE Advance("Render", report_generator(variant, st, fault))
          /\ ev' = [ev EXCEPT !.fault = fault]

\* main() after run_failure_analysis: the exit status.  An exception out of
\* graph.invoke reaches main's except branch, which exits 1.
MainExit ==
    /\ pc \in {"END", "crashed"}
    /\ exit_code' = Some(IF pc = "crashed" THEN 1 ELSE main_exit_code(variant, st))
    /\ pc' = "exited"
    /\ UNCHANGED <<variant, st, trace, ev, cwd, runs>>

Next ==
    \/ Ingest
    \/ Locate
    \/ Execute
    \/ Collect
    \/ Analyze
    \/ Render
    \/ MainExit

Spec == Init /\ [][Next]_vars

\* every enabled step of the single thread of control is eventually taken
FairSpec == Spec /\ WF_vars(Next)

\* ------------------------------------------- report_generator on any state
\* Second specification: report_generator applied to partial states.  A
\* partial state is a state of a full run with any subset of its optional
\* fields reset to None.
OptFields ==
    {"test_results", "failure_details", "code_files", "local_output",
     "local_errors", "local_exit_code", "execution_success", "collected_data",
     "root_cause", "confidence_level", "recommendations", "error_message"}

SampleFile ==
    [kind |-> "testng", total |-> 1, passed |-> 0, failed |-> 1, errors |-> 0,
     skipped |-> 0, fails |-> <<FailureRecord("testng", 1)>>]

\* the states a run on SampleFile hands to report_generator
AnalyzedStates(v) ==
    LET s0 == InitialState(v, <<SampleFile>>, [exists |-> TRUE, pom |-> TRUE, gradle |-> "none"])
        s2 == local_repo_access(v, xml_report_fetcher(v, s0))
    IN  { root_cause_analyzer(v, results_collector(v, local_executor(v, s2, o)), llm) :
            o \in {"nonzero", "timeout"},
            llm \in { l \in LLMOutcomes : IsSome(l.raises) \/ l.resp.conf.k = "absent" } }

Masked(full, keep) ==
    [k \in DOMAIN full |-> IF k \in OptFields /\ k \notin keep THEN None ELSE full[k]]

PartialStates(v) ==
    { Masked(full, keep) : full \in AnalyzedStates(v), keep \in SUBSET OptFields }

InitRender ==
    /\ variant \in Variants
    /\ st \in PartialStates(variant)
    /\ pc = "Render"
    /\ trace = <<>>
    /\ ev = NoEvents
    /\ exit_code = None
    /\ cwd = StartDir
    /\ runs = <<>>

NextRender ==
    \/ Render
    \/ MainExit

SpecRender == InitRender /\ [][NextRender]_vars

\* ------------------------------------------- two runs in one process
\* Third specification: the Execute stages of two runs, for two different
\* repositories, interleaved in one process.  The local local_executor
\* takes three steps: os.chdir(repo_path) after saving os.getcwd(), the
\* test command (which runs in the process's working directory), and the
\* finally block's os.chdir(original_dir).  The poc executor takes one:
\* subprocess.run(..., cwd=repo_path).
RunIds == {1, 2}
RepoDirs == <<"repoA", "repoB">>

\* what the test command does when it runs in a run's repository
ConcOutcomes(v) ==
    IF v = "poc" THEN {"exit0", "exit0_stderr", "nonzero", "timeout", "tool_not_found"}
    ELSE {"ok", "dep_failed", "nonzero", "timeout"}

\* what the test command does in directory d: in a repository what its
\* tests do, in the start directory it finds no tests and exits non-zero
OutcomeIn(d) ==
    IF \E r \in RunIds : runs[r].repo = d
    THEN runs[CHOOSE r \in RunIds : runs[r].repo = d].repo_outcome
    ELSE "nonzero"

\* the state each of the runs hands to its Execute stage
ExecuteInput(v) ==
    local_repo_access(v, xml_report_fetcher(v,
        InitialState(v, <<SampleFile>>, [exists |-> TRUE, pom |-> TRUE, gradle |-> "none"])))

InitConcurrent ==
    /\ variant \in Variants
    /\ st = ExecuteInput(variant)
    /\ pc = "Execute"
    /\ trace = <<"Ingest", "Locate">>
    /\ ev = NoEvents
    /\ exit_code = None
    /\ cwd = StartDir
    /\ \E o1 \in ConcOutcomes(variant), o2 \in ConcOutcomes(variant) :
          runs = [r \in RunIds |->
                    [ repo         |-> RepoDirs[r],
                      repo_outcome |-> IF r = 1 THEN o1 ELSE o2,
                      epc          |-> IF variant = "local" THEN "chdir" ELSE "run",
                      original_dir |-> None,
                      ran_in       |-> None,
                      result       |-> None ]]

\* local_executor (local): original_dir = os.getcwd(); os.chdir(repo_path)
ConcChdir ==
    \E r \in RunIds :
       /\ runs[r].epc = "chdir"
       /\ runs' = [runs EXCEPT ![r].original_dir = Some(cwd), ![r].epc = "run"]
       /\ cwd' = runs[r].repo
       /\ UNCHANGED <<variant, pc, st, trace, ev, exit_code>>

\* the test command: in the working directory of the process (local), in
\* cwd=repo_path (poc); the stage's update of the run's state follows
ConcRun ==
    \E r \in RunIds :
       /\ runs[r].epc = "run"
       /\ LET dir == IF variant = "local" THEN cwd ELSE runs[r].repo
          IN  runs' = [runs EXCEPT ![r].ran_in = Some(dir),
                                   ![r].result = Some(local_executor(variant, st, OutcomeIn(dir))),
                                   ![r].epc    = IF variant = "local" THEN "restore" ELSE "done"]
       /\ UNCHANGED <<variant, pc, st, trace, ev, exit_code, cwd>>

\* local_executor (local): finally: os.chdir(original_dir)
ConcRestore ==
    \E r \in RunIds :
       /\ runs[r].epc = "restore"
       /\ runs' = [runs EXCEPT ![r].epc = "done"]
       /\ cwd' = Val(runs[r].original_dir)
       /\ UNCHANGED <<variant, pc, st, trace, ev, exit_code>>

NextConcurrent ==
    \/ ConcChdir
    \/ ConcRun
    \/ ConcRestore

SpecConcurrent == InitConcurrent /\ [][NextConcurrent]_vars

\* ================================================================== claims
Ended == pc \in {"END", "exited"}
Ran(stage) == \E i \in 1..Len(trace) : trace[i] = stage
ExecOutcomeFailed ==
    ev.exec \in {"no_build_system", "not_located", "sources_present", "nonzero", "timeout", "tool_not_found",
                 "run_exception", "node_exception", "dep_failed", "exception"}

\* C1: if Ingest or Locate returns workflow_status 'error', no later stage
\* runs in that run and the run ends with workflow_status 'error' (in both
\* graphs).
C1_IngestLocateErrorEndsRun ==
    /\ ev.ingest_failed => /\ trace = <<"Ingest">>
                           /\ pc \in {"END", "exited"}
                           /\ st.workflow_status = "error"
    /\ ev.locate_failed => /\ trace = <<"Ingest", "Locate">>
                           /\ pc \in {"END", "exited"}
                           /\ st.workflow_status = "error"

\* C2: whatever the outcome of Execute, Collect is the stage that runs
\* next; and a run in which only Execute failed does not end with
\* workflow_status 'error'.
C2_ExecuteFailureFlowsToCollect ==
    /\ \A i \in 1..Len(trace) :
          trace[i] = "Execute" =>
             IF i = Len(trace) THEN pc = "Collect" ELSE trace[i + 1] = "Collect"
    /\ ( /\ Ended
         /\ ExecOutcomeFailed
         /\ ~ev.ingest_failed /\ ~ev.locate_failed
         /\ IsNone(ev.llm) /\ IsNone(ev.fault) )
       => st.workflow_status # "error"

C2_Witness ==
    /\ pc = "exited"
    /\ variant = "local"
    /\ ev.exec = "timeout"
    /\ IsNone(ev.llm) /\ IsNone(ev.fault)
    /\ st.execution_success = Some(FALSE)
    /\ st.workflow_status = "completed"

\* C3: report_generator is total: on every state, however partial, it
\* returns (does not raise) a state whose final_report is set; the status
\* is 'completed' with the full document, and 'error' with the fixed error
\* document when rendering failed internally.
C3_RenderIsTotal ==
    Ran("Render") =>
        /\ pc # "crashed"
        /\ IsSome(st.final_report)
        /\ st.workflow_status \in {"completed", "error"}
        /\ (st.workflow_status = "completed") <=> (Val(st.final_report).doc = "full")
        /\ (st.workflow_status = "error") <=> (Val(st.final_report).doc = "error")
        /\ (IsSome(ev.fault) => st.workflow_status = "error")

C3_Witness ==
    /\ Ran("Render")
    /\ \A k \in OptFields \ {"error_message"} : IsNone(st[k])
    /\ IsSome(st.final_report)

\* C4: when the text-generation collaborator raises, root_cause_analyzer
\* returns the fallback analysis (root cause = the error text, confidence
\* 0, the fixed manual-investigation recommendations); Render runs
\* afterwards and the run does not end 'error' because of that failure.
C4_AnalyzerFallback ==
    /\ (pc = "Render" /\ IsSome(ev.llm)) =>
          /\ st.root_cause = Some(<<"Analysis failed", Val(ev.llm)>>)
          /\ st.root_cause = st.error_message
          /\ st.confidence_level = Some(0)
          /\ st.recommendations = Some(ManualRecs(variant))
    /\ (IsSome(ev.llm) /\ Ran("Analyze")) => pc \in {"Render", "END", "exited"}
    /\ (IsSome(ev.llm) /\ Ended) =>
          /\ trace[Len(trace)] = "Render"
          /\ (IsNone(ev.fault) => st.workflow_status = "completed")

C4_Witness ==
    /\ pc = "exited"
    /\ IsSome(ev.llm)
    /\ st.confidence_level = Some(0)
    /\ st.workflow_status = "completed"

\* C5: every run terminates, and when it has its workflow_status is
\* 'completed' or 'error'; a timeout of the test subprocess is recorded as
\* a failed execution and the run still reaches a terminal status.
C5_RunTerminates ==
    /\ <>Ended
    /\ [](Ended => st.workflow_status \in {"completed", "error"})
    /\ []((ev.exec = "timeout") =>
            /\ st.execution_success = Some(FALSE)
            /\ Len(Val(st.local_errors)) > 0)
    /\ ((ev.exec = "timeout") ~> (Ended /\ st.workflow_status \in {"completed", "error"}))

C5_Witness ==
    /\ pc = "exited"
    /\ ev.exec = "timeout"
    /\ st.local_exit_code = Some(-1)
    /\ st.workflow_status \in {"completed", "error"}

\* C6: the stages of a run execute in the fixed order Ingest, Locate,
\* Execute, Collect, Analyze, Render: each at most once, none before a
\* stage that precedes it, and the stage about to run is the successor of
\* the last stage that returned.
C6_FixedStageOrder ==
    /\ Len(trace) <= Len(Stages)
    /\ \A i \in 1..Len(trace) : trace[i] = Stages[i]
    /\ pc \notin {"END", "exited", "crashed"} => pc = Stages[Len(trace) + 1]

C6_Witness ==
    /\ pc = "exited"
    /\ trace = Stages

\* C7: workflow_status 'error' is terminal: once it is 'error' it is
\* 'error' in every later state of the run.
C7_ErrorIsTerminal ==
    [][st.workflow_status = "error" => st'.workflow_status = "error"]_vars

\* C8: a run that ends with workflow_status 'error' has final_report set,
\* and the report names the failed stage and the error message.
C8_ErrorRunHasReport ==
    (Ended /\ st.workflow_status = "error") =>
        /\ IsSome(st.final_report)
        /\ Val(st.final_report).doc = "error"
        /\ st.error_message = Some(<<Val(st.final_report).stage, Val(st.final_report).message>>)

\* C9: for a run started by main() that returned a final state, the exit
\* code is 0 exactly when the final workflow_status is 'completed'; a
\* final 'error' gives a non-zero exit code.
C9_ExitCodeMatchesStatus ==
    (pc = "exited" /\ Len(trace) > 0 /\ IsSome(exit_code)) =>
        /\ (Val(exit_code) = 0) <=> (st.workflow_status = "completed")
        /\ (st.workflow_status = "error" => Val(exit_code) # 0)

\* C10: when Collect has run, the comparison holds
\* xml_failed = (failed_tests > 0 or error_tests > 0),
\* local_failed = not execution_success,
\* consistent_failure = (xml_failed == local_failed) and
\* reproducible = (consistent_failure and xml_failed).
C10_ComparisonFlags ==
    (pc = "Analyze") =>
        /\ IsSome(st.collected_data)
        /\ IsSome(st.test_results)
        /\ LET cmp == Val(st.collected_data).comparison
               tr  == Val(st.test_results)
           IN  /\ cmp.xml_failed = (tr.failed_tests > 0 \/ tr.error_tests > 0)
               /\ cmp.local_failed = ~Truthy(st.execution_success)
               /\ cmp.consistent_failure = (cmp.xml_failed = cmp.local_failed)
               /\ "reproducible" \in DOMAIN cmp
               /\ cmp.reproducible = (cmp.consistent_failure /\ cmp.xml_failed)

\* the texts the Execute stage records when it finds no build system
NoBuildSystemOutput == "Build system not detected (Maven/Gradle required)"
NoBuildSystemError == "No pom.xml or build.gradle found"

\* C11: when the report has at least one failure and re-execution could
\* not run because the repository has no build system, the run ends
\* 'completed' with comparison local_failed = false and
\* consistent_failure = false (a skipped execution counts as unknown).
C11_SkippedExecutionIsUnknown ==
    ( /\ Ended
      /\ ev.exec = "no_build_system"
      /\ Val(st.failure_details).failure_count > 0
      /\ IsNone(ev.fault) )
    => /\ st.workflow_status = "completed"
       /\ Val(st.collected_data).comparison.local_failed = FALSE
       /\ Val(st.collected_data).comparison.consistent_failure = FALSE

\* C12: when Execute found no build system and the run ends 'completed',
\* the execution-results section of the final report contains the
\* 'build system not detected' message that Execute recorded.
C12_BuildSystemMessageInReport ==
    ( /\ Ended
      /\ ev.exec = "no_build_system"
      /\ st.workflow_status = "completed" )
    => /\ st.local_output = Some(NoBuildSystemOutput)
       /\ \E i \in 1..Len(Val(st.final_report).execution_texts) :
             Val(st.final_report).execution_texts[i] \in {NoBuildSystemOutput, NoBuildSystemError}

\* ---------------------------------------------------- ingestion and merging
BadKinds == {"malformed", "unknown_root"}
CountFields == {"total_tests", "passed_tests", "failed_tests", "error_tests", "skipped_tests"}

\* the summary of one file as parse_report returns it, file by file
RECURSIVE FieldSum(_, _)
FieldSum(paths, field) ==
    IF Len(paths) = 0 THEN 0
    ELSE (IF Head(paths).kind \in BadKinds THEN 0 ELSE parse_report("poc", Head(paths))[field])
         + FieldSum(Tail(paths), field)

RECURSIVE ConcatFails(_)
ConcatFails(paths) ==
    IF Len(paths) = 0 THEN <<>>
    ELSE (IF Head(paths).kind \in BadKinds THEN <<>>
          ELSE extract_failure_details("poc", Head(paths)).test_failures)
         \o ConcatFails(Tail(paths))

Reordered(paths) ==
    IF Len(paths) = 0 THEN { paths }
    ELSE { [i \in 1..Len(paths) |-> paths[p[i]]] : p \in Permutations(1..Len(paths)) }

\* the rule the claims state for the result of a summary
ResultRule(n, total) ==
    IF n = 0 THEN "SUCCESS" ELSE IF n = total THEN "FAILURE" ELSE "PARTIAL_FAILURE"

\* Ingest has just returned in the poc pipeline
AfterIngest == variant = "poc" /\ pc = "Locate" /\ trace = <<"Ingest">>

\* C13: if any one input report file is malformed XML or has an unknown
\* root element, Ingest ends with workflow_status 'error' and an
\* error_message carrying the parser message, for one file and for every
\* multi-file input.
C13_BadFileFailsIngest ==
    ( /\ AfterIngest
      /\ \E i \in 1..Len(st.xml_report_paths) : st.xml_report_paths[i].kind \in BadKinds )
    => /\ st.workflow_status = "error"
       /\ IsSome(st.error_message)
       /\ Val(st.error_message)[2] \in {"Invalid XML file", "Unknown XML format"}

\* C14: merge_reports returns counts equal to the field-wise sums of the
\* per-file summaries, the same counts for every permutation of the input
\* list, and a failure list that is the concatenation of the per-file
\* failure lists in input order.
C14_MergeSumsAndOrder ==
    AfterIngest =>
        LET paths  == st.xml_report_paths
            merged == merge_reports(paths)
        IN  /\ \A f \in CountFields : merged[f] = FieldSum(paths, f)
            /\ \A q \in Reordered(paths) :
                  \A f \in CountFields : merge_reports(q)[f] = merged[f]
            /\ merged.test_failures = ConcatFails(paths)
            /\ merged.failure_count = Len(ConcatFails(paths))
            /\ (Len(paths) >= 2 =>
                  /\ st.test_results = Some(merged)
                  /\ st.failure_details = Some(merged))

C14_Witness ==
    /\ AfterIngest
    /\ Len(st.xml_report_paths) = 2
    /\ st.xml_report_paths[1].kind = "junit"
    /\ st.xml_report_paths[2].kind = "testng"
    /\ st.xml_report_paths[1].errors = 1
    /\ Val(st.test_results).error_tests = 1
    /\ Val(st.failure_details).test_failures = <<FailureRecord("junit", 1), FailureRecord("testng", 1)>>

\* the input is one report given twice
SameFileTwice ==
    /\ Len(st.xml_report_paths) = 2
    /\ st.xml_report_paths[1] = st.xml_report_paths[2]
    /\ st.xml_report_paths[1].kind \notin BadKinds

\* C15: the result of a merged or single summary is derived from its
\* counts: SUCCESS when failed == 0, FAILURE when failed == total,
\* PARTIAL_FAILURE otherwise; merging a report with itself doubles every
\* count and yields the result the rule gives for the doubled failed and
\* total.
C15_ResultFromFailedCount ==
    (AfterIngest /\ st.workflow_status # "error") =>
        LET tr == Val(st.test_results)
            fd == Val(st.failure_details)
            one == parse_report("poc", st.xml_report_paths[1])
        IN  /\ fd.result = ResultRule(tr.failed_tests, tr.total_tests)
            /\ SameFileTwice =>
                  /\ \A f \in CountFields : tr[f] = 2 * one[f]
                  /\ fd.result = ResultRule(2 * one.failed_tests, 2 * one.total_tests)

\* C15 as amended: the result is derived from the number of failure
\* records (failed and errored tests alike) and the total: SUCCESS when
\* there is no failure record, FAILURE when there are as many as tests,
\* PARTIAL_FAILURE otherwise; merging a report with itself doubles every
\* count and the number of failure records, and yields the result the
\* rule gives for the doubled numbers.
C15_ResultFromFailureRecords ==
    (AfterIngest /\ st.workflow_status # "error") =>
        LET tr == Val(st.test_results)
            fd == Val(st.failure_details)
            one == parse_report("poc", st.xml_report_paths[1])
            one_failures == Len(extract_failure_details("poc", st.xml_report_paths[1]).test_failures)
        IN  /\ fd.failure_count = Len(fd.test_failures)
            /\ fd.result = ResultRule(fd.failure_count, tr.total_tests)
            /\ SameFileTwice =>
                  /\ \A f \in CountFields : tr[f] = 2 * one[f]
                  /\ fd.failure_count = 2 * one_failures
                  /\ fd.result = ResultRule(2 * one_failures, 2 * one.total_tests)

C15_Witness ==
    /\ AfterIngest
    /\ SameFileTwice
    /\ st.xml_report_paths[1].kind = "junit"
    /\ st.xml_report_paths[1].errors = 1
    /\ Val(st.test_results).total_tests = 2
    /\ Val(st.test_results).failed_tests = 0
    /\ Val(st.failure_details).failure_count = 2
    /\ Val(st.failure_details).result = "FAILURE"

\* C16: for every single-file JUnit or TestNG report that parse_report
\* accepts, passed_tests + failed_tests + error_tests + skipped_tests ==
\* total_tests, and merge_reports preserves the equation on the merged
\* summary.
C16_CountsAddUp ==
    (AfterIngest /\ st.workflow_status # "error") =>
        LET tr == Val(st.test_results)
        IN  tr.passed_tests + tr.failed_tests + tr.error_tests + tr.skipped_tests = tr.total_tests

\* --------------------------------------------------------------- execution
BuildSystems == {"maven", "gradle"}
FailedAttempts == {"nonzero", "timeout", "tool_not_found", "run_exception"}

\* C17: there are no retries: in one run the build tool is started at
\* most once for test execution, whatever the outcome of that attempt
\* (non-zero exit, timeout, tool not found, other exception).
C17_NoRetries ==
    /\ ev.starts <= 1
    /\ (variant = "poc" /\ ev.exec \in FailedAttempts) => ev.starts = 1
    /\ (Ran("Execute") /\ Ended) => Len(SelectSeq(trace, LAMBDA n : n = "Execute")) = 1

C17_Witness ==
    /\ pc = "exited"
    /\ variant = "poc"
    /\ ev.exec = "tool_not_found"
    /\ ev.starts = 1
    /\ st.execution_success = Some(FALSE)

\* C18: if the located-test list is empty, execution is reported
\* immediately as failed (success = false, exit code -1) and no subprocess
\* is started in that run.
C18_EmptyLocatedList ==
    /\ \A b \in BuildSystems \cup {"none"}, o \in PocExecOutcomes :
          /\ run_specific_tests(b, 0, o).success = FALSE
          /\ run_specific_tests(b, 0, o).exit_code = -1
          /\ build_tool_starts(b, 0, o) = 0
    /\ (variant = "poc" /\ ev.exec = "not_located") =>
          /\ st.execution_success = Some(FALSE)
          /\ st.local_exit_code = Some(-1)
          /\ ev.starts = 0

C18_Witness ==
    /\ variant = "poc"
    /\ pc = "Collect"
    /\ ev.exec = "not_located"
    /\ Val(st.failure_details).failure_count > 0
    /\ detect_build_system(st.repo_path) = "gradle"
    /\ st.local_exit_code = Some(-1)

\* C19: when the build-tool executable is not found, and when the timeout
\* expires, run_specific_tests returns (does not raise) a result with
\* success = false and exit_code = -1, and the two cases are recorded as
\* failures that differ from each other and from a non-zero exit.
C19_ToolNotFoundAndTimeout ==
    /\ \A b \in BuildSystems :
          LET nf == run_specific_tests(b, 1, "tool_not_found")
              to == run_specific_tests(b, 1, "timeout")
              nz == run_specific_tests(b, 1, "nonzero")
          IN  /\ nf.success = FALSE /\ nf.exit_code = -1
              /\ to.success = FALSE /\ to.exit_code = -1
              /\ nf.errors # to.errors
              /\ nf.errors # nz.errors /\ to.errors # nz.errors
    /\ (variant = "poc" /\ ev.exec \in {"tool_not_found", "timeout"}) =>
          /\ pc # "crashed"
          /\ st.execution_success = Some(FALSE)
          /\ st.local_exit_code = Some(-1)
          /\ st.local_errors = Some(run_specific_tests(detect_build_system(st.repo_path), 1, ev.exec).errors)
          /\ st.local_errors # Some(run_specific_tests(detect_build_system(st.repo_path), 1,
                                        IF ev.exec = "timeout" THEN "tool_not_found" ELSE "timeout").errors)

C19_Witness ==
    /\ variant = "poc"
    /\ pc = "Collect"
    /\ ev.exec = "timeout"
    /\ detect_build_system(st.repo_path) = "maven"
    /\ st.local_errors = Some(<<"Test execution timed out">>)
    /\ st.local_exit_code = Some(-1)

\* C20: when the repository has neither pom.xml nor build.gradle nor
\* build.gradle.kts, build-system detection returns none, no subprocess is
\* started, Execute ends with the non-error status 'executed', and the
\* pipeline continues to Collect, Analyze and Render.
C20_NoBuildSystemIsASkip ==
    ( /\ variant = "poc"
      /\ st.repo_path.exists
      /\ ~st.repo_path.pom
      /\ st.repo_path.gradle = "none" )
    => /\ detect_build_system(st.repo_path) = "none"
       /\ ev.starts = 0
       /\ ev.exec \in {"", "no_failures", "no_build_system"}
       /\ pc # "crashed"
       /\ (pc = "Collect" => st.workflow_status = "executed")
       /\ (Ran("Execute") /\ Ended) => trace = Stages

C20_Witness ==
    /\ variant = "poc"
    /\ pc = "exited"
    /\ st.repo_path.exists /\ ~st.repo_path.pom /\ st.repo_path.gradle = "none"
    /\ ev.exec = "no_build_system"
    /\ ev.starts = 0
    /\ trace = Stages
    /\ st.workflow_status = "completed"

\* ---------------------------------------------------------------- analysis
\* the response has none of the three section markers
NoMarkers(resp) == ~resp.rc /\ resp.conf.k = "absent" /\ resp.nrecs = 0

\* Analyze has just returned after the collaborator answered
AfterAnalyzeOfResponse == pc = "Render" /\ Ran("Analyze") /\ IsSome(ev.resp)

\* C21: parsing the collaborator's response never raises: for any
\* response text Analyze returns with status 'analyzed', a missing or
\* unparsable section taking its default; for a response with none of the
\* three markers it yields confidence 0.0, the single sentinel
\* recommendation and a non-empty fallback root-cause string.
C21_ResponseParsingNeverRaises ==
    AfterAnalyzeOfResponse =>
        /\ st.workflow_status = "analyzed"
        /\ NoMarkers(Val(ev.resp)) =>
              /\ st.confidence_level = Some(0)
              /\ st.recommendations = Some(SentinelRecs)
              /\ IsSome(st.root_cause)
              /\ Val(st.root_cause)[1] # ""

\* C23: in every state produced by Analyze, confidence_level lies in
\* [0, 1] (0..100 as a percentage), whatever percentage or number the
\* response text contains.
C23_ConfidenceInUnitInterval ==
    (pc = "Render" /\ Ran("Analyze")) =>
        /\ IsSome(st.confidence_level)
        /\ Val(st.confidence_level) >= 0
        /\ Val(st.confidence_level) <= 100

\* C22: two runs executed concurrently in one process, for different
\* repositories, do not interfere: each run executes its command in its
\* own repository and ends in the state it would reach if it ran alone,
\* under every interleaving; and the process is left as it was found.
C22_ConcurrentRunsIndependent ==
    /\ \A r \in DOMAIN runs :
          runs[r].epc = "done" =>
             /\ runs[r].ran_in = Some(runs[r].repo)
             /\ runs[r].result = Some(local_executor(variant, st, runs[r].repo_outcome))
    /\ (\A r \in DOMAIN runs : runs[r].epc = "done") => cwd = StartDir

\* C24: the Collect stage cannot fail: in every state in which
\* results_collector can run it returns collected_data containing a
\* comparison and the non-error status 'results_collected', and Analyze
\* runs next.
C24_CollectCannotFail ==
    /\ Ran("Collect") => pc \in {"Analyze", "Render", "END", "exited"}
    /\ pc = "Analyze" =>
          /\ st.workflow_status = "results_collected"
          /\ IsSome(st.collected_data)
          /\ "comparison" \in DOMAIN Val(st.collected_data)

\* C25: in every state after the Execute stage, execution_success is true
\* exactly when the recorded exit code is 0 and local_errors is empty.
C25_SuccessIffCleanExit ==
    Ran("Execute") =>
        ( Truthy(st.execution_success)
          <=> (st.local_exit_code = Some(0) /\ st.local_errors = Some(<<>>)) )

\* ----------------------------------------------------------- locating tests
RECURSIVE IsSubsequence(_, _)
IsSubsequence(a, b) ==
    IF Len(a) = 0 THEN TRUE
    ELSE IF Len(b) = 0 THEN FALSE
    ELSE IF Head(a) = Head(b) THEN IsSubsequence(Tail(a), Tail(b))
    ELSE IsSubsequence(a, Tail(b))

\* the failure records Ingest handed to the poc pipeline
IngestedFailures ==
    IF variant = "poc" /\ IsSome(st.failure_details)
    THEN Val(st.failure_details).test_failures ELSE <<>>

C27_LocatedByClassName ==
    \A i \in 1..Len(IngestedFailures) :
        ~IngestedFailures[i].method_signature =>
            \E j \in 1..Len(find_tests_for_failures(Val(st.failure_details), "sources_present")) :
                find_tests_for_failures(Val(st.failure_details), "sources_present")[j].failure_info
                    = IngestedFailures[i]

\* the inputs of a run and, once Ingest ran, what it parsed
InputsOf(s) == <<s.xml_report_paths, s.repo_path, s.test_name>>
ParsedOf(s) == <<s.test_results, s.failure_details>>

\* C28: no stage changes the inputs of the run (xml_report_paths, repo_path,
\* test_name), and once Ingest has run no later stage modifies test_results
\* or failure_details.
C28_InputsAndParsedRecordsFrozen ==
    [][ /\ InputsOf(st') = InputsOf(st)
        /\ (Ran("Ingest") => ParsedOf(st') = ParsedOf(st)) ]_vars

\* a run that went through every stage with parsed failure records
C28_Witness ==
    /\ pc = "END"
    /\ Ran("Render")
    /\ IsSome(st.failure_details)
    /\ Len(Val(st.failure_details).test_failures) > 0
    /\ InputsOf(st) = InputsOf(InitialState(variant, st.xml_report_paths, st.repo_path))

\* C29: at the end of every run error_message is set if and only if the
\* final workflow_status is 'error'; a run that ends 'completed' carries no
\* error_message of an earlier stage.
C29_ErrorMessageIffErrorStatus ==
    Ended => (IsSome(st.error_message) <=> st.workflow_status = "error")

\* ------------------------------------------ the two paths of Ingest on [f]
\* Third specification: one report file, ingested once through the
\* single-file path of xml_report_fetcher and once through merge_reports.
\* The failing test of a file carries one of these exception classes and
\* messages.
ErrorTypes ==
    {"AssertionError", "org.opentest4j.AssertionFailedError",
     "CompilationError", "java.lang.RuntimeException"}

ErrorMessages == {"expected true", "Timeout waiting for element"}

TypedFiles ==
    XmlFiles \cup
    { [kind |-> k, total |-> t, passed |-> t - 1, failed |-> 1, errors |-> 0,
       skipped |-> 0,
       fails |-> << [FailureRecord(k, 1) EXCEPT !.error_type = et,
                                                !.error_message = em] >>] :
         k \in {"junit", "testng"}, t \in 1..MaxTests,
         et \in ErrorTypes, em \in ErrorMessages }

\* xml_report_fetcher, the branch for several files: merge_reports catches
\* every reader exception itself, so the branch's own except is never taken
fetch_merged_reports(s) ==
    [s EXCEPT !.test_results    = Some(merge_reports(s.xml_report_paths)),
              !.failure_details = Some(merge_reports(s.xml_report_paths)),
              !.workflow_status = "xml_fetched"]

InitIngestPaths ==
    /\ variant = "poc"
    /\ \E f \in TypedFiles, repo \in Repos : st = InitialState("poc", <<f>>, repo)
    /\ pc = "Ingest"
    /\ trace = <<>>
    /\ ev = NoEvents
    /\ exit_code = None
    /\ cwd = StartDir
    /\ runs = <<>>

IngestMerged ==
    /\ pc = "Ingest"
    /\ st' = fetch_merged_reports(st)
    /\ pc' = "Locate"
    /\ trace' = <<"merge_reports">>
    /\ UNCHANGED <<variant, ev, exit_code, cwd, runs>>

NextIngestPaths ==
    \/ Ingest
    \/ IngestMerged

SpecIngestPaths == InitIngestPaths /\ [][NextIngestPaths]_vars

\* what the claim compares of two Ingest results
SummaryFields ==
    {"total_tests", "passed_tests", "failed_tests", "error_tests", "skipped_tests"}

DetailFields ==
    {"failure_count", "test_failures", "result",
     "has_compilation_error", "has_timeout", "has_assertion_error"}

SameIngest(a, b) ==
    /\ (a.workflow_status = "error") <=> (b.workflow_status = "error")
    /\ IsSome(a.test_results) <=> IsSome(b.test_results)
    /\ IsSome(a.test_results) /\ IsSome(b.test_results) =>
          /\ \A k \in SummaryFields : Val(a.test_results)[k] = Val(b.test_results)[k]
          /\ \A k \in DetailFields  : Val(a.failure_details)[k] = Val(b.failure_details)[k]

\* C30: for every report file f, the single-file path of Ingest on [f] gives
\* the same outcome (success or error), counts, failure count, failure list,
\* result and derived flags as merge_reports applied to [f].
C30_SinglePathEqualsMerge ==
    trace = <<"Ingest">> => SameIngest(st, fetch_merged_reports(st))

====
